---- MODULE Spec2Model ----
(***************************************************************************)
(* Model of data-services-ihe/lib/glue-resources.ts: the JobConfigLoader   *)
(* (recursive discovery of *.json files, placeholder substitution), and    *)
(* the GlueResourcesStack constructor that turns every loaded job config   *)
(* into a bucket deployment, a Glue job and an optional scheduled trigger; *)
(* and the CuratedBuckets construct, which creates one bucket per name,    *)
(* attaches its access grants and publishes its ARN under two parameters.  *)
(*                                                                         *)
(* Text is modelled as a sequence of one-character strings, so that the    *)
(* regular-expression replacements and endsWith work on characters.        *)
(***************************************************************************)
EXTENDS Integers, Sequences, FiniteSets, TLC

VARIABLES
    \* ---- GlueResourcesStack constructor (one run) ----
    pc,          \* position in the constructor
    envName,     \* props.envName
    store,       \* the parameter store: the set of paths that exist in it
    files,       \* the documents under ./config/glue-job-configs, in readdir order
    refs,        \* parameter paths referenced by initializeStackProperties, in order
    fileNames,   \* result of loadJobConfigsFiles
    configData,  \* result of loadJobConfigsFileContent
    i,           \* loop index of the for loop at line 106
    constructs,  \* constructs added to the stack by the loop, in creation order
    deps,        \* node.addDependency edges: <<dependent id, dependency id>>
    err,         \* the exception that ended the run, "" if none
    \* ---- JobConfigLoader.loadJobConfigsFileContent on one raw text ----
    rPc, rRaw, rMap, rOut,
    \* ---- JobConfigLoader.getFilesRecursively on one directory tree ----
    dPc, dTree, dOut,
    \* ---- CuratedBuckets constructor (one construction) ----
    bPc,          \* position in the constructor
    bEnv,         \* props.envName
    bAccount,     \* props.dataServiceAccount
    bNames,       \* props.bucketNames
    bI,           \* index of the forEach callback that is running
    curatedBucket,\* the local of the running callback (line 353)
    bEffects,     \* buckets, grants and parameters made so far, in order
    bErr          \* the exception that ended the construction, "" if none

runVars == <<pc, envName, store, files, refs, fileNames, configData, i,
             constructs, deps, err>>
renderVars == <<rPc, rRaw, rMap, rOut>>
discoverVars == <<dPc, dTree, dOut>>
bucketVars == <<bPc, bEnv, bAccount, bNames, bI, curatedBucket, bEffects, bErr>>
vars == <<runVars, renderVars, discoverVars, bucketVars>>

\* ------------------------------------------------------------------ bounds
\* number of documents in the configuration directory of a run
MaxDocs == 2
\* number of fragments a raw text is concatenated from
MaxPieces == 3
\* number of entries (files and directories) of a directory tree
MaxNodes == 4
\* number of entries of props.bucketNames
MaxBuckets == 3

\* ------------------------------------------------------------------- text
\* the regular expressions of lines 55-58, as the literal text they match
TokDs == <<"{","d","s","_","a","c","c","o","u","n","t","_","n","u","m","b","e","r","}">>
TokIs == <<"{","i","s","_","a","c","c","o","u","n","t","_","n","u","m","b","e","r","}">>
TokEnv == <<"{","e","n","v","_","n","a","m","e","}">>
TokSvc == <<"{","s","e","r","v","i","c","e","_","n","a","m","e","}">>

\* text[pos .. pos+Len(tok)-1] = tok
MatchAt(text, tok, pos) ==
    /\ pos + Len(tok) - 1 <= Len(text)
    /\ SubSeq(text, pos, pos + Len(tok) - 1) = tok

\* String.prototype.replace with a string replacement: $$, $&, $` and $' in the
\* replacement are patterns ($n is literal: the expressions have no groups).
RECURSIVE Expand(_, _, _, _, _)
Expand(val, j, matched, before, after) ==
    IF j > Len(val) THEN <<>>
    ELSE IF val[j] = "$" /\ j < Len(val) /\ val[j+1] \in {"$", "&", "`", "'"}
    THEN (CASE val[j+1] = "$" -> <<"$">>
            [] val[j+1] = "&" -> matched
            [] val[j+1] = "`" -> before
            [] val[j+1] = "'" -> after)
         \o Expand(val, j + 2, matched, before, after)
    ELSE <<val[j]>> \o Expand(val, j + 1, matched, before, after)

\* text.replace(/tok/g, val): leftmost matches, not overlapping, scanning the
\* original text only
RECURSIVE ReplaceFrom(_, _, _, _)
ReplaceFrom(text, tok, val, pos) ==
    IF pos > Len(text) THEN <<>>
    ELSE IF MatchAt(text, tok, pos)
    THEN Expand(val, 1, tok, SubSeq(text, 1, pos - 1),
                SubSeq(text, pos + Len(tok), Len(text)))
         \o ReplaceFrom(text, tok, val, pos + Len(tok))
    ELSE <<text[pos]>> \o ReplaceFrom(text, tok, val, pos + 1)

ReplaceAll(text, tok, val) == ReplaceFrom(text, tok, val, 1)

\* lines 54-58: the four replacements chained in this order
Substitute(fileContent, dsAccountNumber, isAccountNumber, env, serviceName) ==
    ReplaceAll(
        ReplaceAll(
            ReplaceAll(
                ReplaceAll(fileContent, TokDs, dsAccountNumber),
                TokIs, isAccountNumber),
            TokEnv, env),
        TokSvc, serviceName)

\* ---------------------------------------------------- rendering one text
Pieces == { TokDs, TokIs, TokEnv, TokSvc,
            <<"{","e","n","v">>, <<"n","a","m","e","}">>, <<"x">> }

RECURSIVE Flatten(_)
Flatten(ps) == IF ps = <<>> THEN <<>> ELSE Head(ps) \o Flatten(Tail(ps))

RawContents == { Flatten(ps) : ps \in UNION { [1..n -> Pieces] : n \in 0..MaxPieces } }

\* substitution maps: account numbers, environment and service names, and
\* values that hold placeholder text or a replacement pattern
SubstitutionMaps ==
    [ ds  : { <<"1">>, TokEnv, <<"$","&">> },
      is  : { <<"2">> },
      env : { <<"d","e","v">> },
      svc : { <<"s">>, <<"_">> } ]

RenderIdle == rPc = "idle" /\ rRaw = <<>> /\ rMap = <<>> /\ rOut = <<>>

RenderInit ==
    /\ rPc = "raw"
    /\ rRaw \in RawContents
    /\ rMap \in SubstitutionMaps
    /\ rOut = <<>>

\* lines 52-59 for one file, up to JSON.parse
RenderText ==
    /\ rPc = "raw"
    /\ rOut' = Substitute(rRaw, rMap.ds, rMap.is, rMap.env, rMap.svc)
    /\ rPc' = "rendered"
    /\ UNCHANGED <<rRaw, rMap>>

\* ------------------------------------------------------------- discovery
\* A directory listing is a sequence of entries in readdirSync order; an entry
\* is [name, isDir, children], children being the listing of a directory.
DotJson == <<".","j","s","o","n">>

\* startsWith in place of endsWith
startsWith(file, suffix) ==
    /\ Len(file) >= Len(suffix)
    /\ SubSeq(file, 1, Len(suffix)) = suffix

\* file.endsWith('.json'), line 30
endsWith(file, suffix) ==
    /\ Len(file) >= Len(suffix)
    /\ SubSeq(file, Len(file) - Len(suffix) + 1, Len(file)) = suffix

\* lines 23-35: the for loop over the listing of dir, with fileList threaded
\* through the recursive calls as the code's shared array is
RECURSIVE getFilesRecursively(_, _, _)
getFilesRecursively(dir, listing, fileList) ==
    IF listing = <<>> THEN fileList
    ELSE LET file == Head(listing)
             filePath == Append(dir, file.name)
             pushed ==
                 IF file.isDir
                 THEN getFilesRecursively(filePath, file.children, fileList)
                 ELSE IF endsWith(file.name, DotJson)
                      THEN Append(fileList, filePath)
                      ELSE fileList
         IN getFilesRecursively(dir, Tail(listing), pushed)

\* line 38
baseDir == << <<".">>, <<"c","o","n","f","i","g">>,
              <<"g","l","u","e","-","j","o","b","-","c","o","n","f","i","g","s">> >>

\* lines 37-41
loadJobConfigsFiles(listing) == getFilesRecursively(baseDir, listing, <<>>)

\* entry names of the trees explored: a matching name, the bare suffix, and
\* a name with another suffix
EntryNames == { <<"a",".","j","s","o","n">>, DotJson, <<"a",".","j","s">> }

\* every listing of exactly n entries in all, sibling names distinct
RECURSIVE ListingsOfSize(_)
ListingsOfSize(n) ==
    IF n = 0 THEN { <<>> }
    ELSE UNION { LET under == ListingsOfSize(k)
                     rest == ListingsOfSize(n - 1 - k)
                     heads == { [name |-> nm, isDir |-> TRUE, children |-> c] :
                                  nm \in EntryNames, c \in under }
                              \cup (IF k = 0
                                    THEN { [name |-> nm, isDir |-> FALSE,
                                            children |-> <<>>] : nm \in EntryNames }
                                    ELSE {})
                 IN { <<hr[1]>> \o hr[2] : hr \in
                        { x \in heads \X rest :
                            \A j \in 1..Len(x[2]) : x[2][j].name # x[1].name } }
               : k \in 0..(n - 1) }

Listings(n) == UNION { ListingsOfSize(m) : m \in 0..n }

DiscoverIdle == dPc = "idle" /\ dTree = <<>> /\ dOut = <<>>

DiscoverInit ==
    /\ dPc = "tree"
    /\ dTree \in Listings(MaxNodes)
    /\ dOut = <<>>

\* loadJobConfigsFiles on the tree
Discover ==
    /\ dPc = "tree"
    /\ dOut' = loadJobConfigsFiles(dTree)
    /\ dPc' = "discovered"
    /\ UNCHANGED dTree

\* ------------------------------------------------- the stack constructor
Envs == { "dev", "prod" }

EnvText(e) == IF e = "dev" THEN <<"d","e","v">> ELSE <<"p","r","o","d">>

\* line 469, the account of the stack (this.account)
ds_account == <<"1">>
\* line 470
is_account == <<"2">>
\* line 478
transformServiceName ==
    <<"d","p","s","-","i","h","e","-","t","r","a","n","s","f","o","r","m","a","t","i","o","n">>

\* `/cdk/${envName}/dps-data-services-baseline/${field}`
ParameterPath(env, field) == <<"cdk", env, "dps-data-services-baseline", field>>

\* the parameters the baseline stack publishes for an environment; a store
\* holds them all, or lacks one
BaselineFields ==
    { "glue-role-arn", "sfn-role-arn", "data-artifact-bucket-arn",
      "glue-connection-list", "glue-kms-key-arn" }

\* initializeStackProperties without the role lookup of lines 222-226
StackParametersNoRole(env) ==
    << ParameterPath(env, "sfn-role-arn"),
       ParameterPath(env, "sfn-role-arn"),
       ParameterPath(env, "data-artifact-bucket-arn"),
       ParameterPath(env, "data-artifact-bucket-arn"),
       ParameterPath(env, "glue-connection-list"),
       ParameterPath(env, "glue-kms-key-arn") >>

\* lines 221-311: the parameters initializeStackProperties refers to, in order;
\* the third is referred to twice (lines 249 and 263)
StackParameters(env) ==
    << ParameterPath(env, "glue-role-arn"),
       ParameterPath(env, "sfn-role-arn"),
       ParameterPath(env, "data-artifact-bucket-arn"),
       ParameterPath(env, "data-artifact-bucket-arn"),
       ParameterPath(env, "glue-connection-list"),
       ParameterPath(env, "glue-kms-key-arn") >>

\* commonLib.GetBucketFromArn (./common/common, lines 258-266): its code is not
\* part of the sources. It is given a parameter path; like the parameter store
\* adapter it may fail when the path does not exist, or refer to it as lines
\* 246-256 do. Both outcomes are kept.
GetBucketFromArn(params, path) ==
    { "ok" } \cup (IF path \in params THEN {} ELSE { "UnresolvedParameterError" })

\* values of jobConfig.schedule[envName] after JSON.parse
Undefined == [t |-> "undefined", v |-> ""]
Null == [t |-> "null", v |-> ""]
Str(s) == [t |-> "string", v |-> s]
Zero == [t |-> "number", v |-> "0"]

\* v == '' in JavaScript (loose equality): the empty string and the number 0
LooseEqualsEmpty(val) ==
    \/ val.t = "string" /\ val.v = ""
    \/ val.t = "number" /\ val.v = "0"

\* the test of line 149 without its second half
scheduleWantedNotNull(schedulerParamVal) ==
    schedulerParamVal.t \notin { "undefined", "null" }

\* line 149: schedulerParamVal != null && schedulerParamVal != ''
scheduleWanted(schedulerParamVal) ==
    /\ schedulerParamVal.t \notin { "undefined", "null" }
    /\ ~LooseEqualsEmpty(schedulerParamVal)

\* the documents of the configuration directory: the text of jobConfig.name
\* before substitution, and what JSON.parse yields for the rest
NameA == <<"a">>
NameBDev == <<"b","-","d","e","v">>
NameBEnv == <<"b","-">> \o TokEnv
NameASchedule == <<"a","-","s","c","h","e","d","u","l","e">>

\* { "dev": "cron(0 * * * ? *)" }
ScheduleDevOnly == [e \in Envs |-> IF e = "dev" THEN Str("cron(0 * * * ? *)") ELSE Undefined]
\* { "dev": "", "prod": "cron(30 10 * * ? *)" }
ScheduleProdOnly == [e \in Envs |-> IF e = "dev" THEN Str("") ELSE Str("cron(30 10 * * ? *)")]
\* { "dev": null, "prod": 0 }
ScheduleOdd == [e \in Envs |-> IF e = "dev" THEN Null ELSE Zero]

Doc(ok, jc, hn, nm, hs, sch) ==
    [syntaxOk |-> ok, hasJobConfig |-> jc, hasName |-> hn, name |-> nm,
     hasSchedule |-> hs, schedule |-> sch]

Documents ==
    { Doc(FALSE, FALSE, FALSE, <<>>, FALSE, ScheduleOdd),     \* not JSON
      Doc(TRUE, FALSE, FALSE, <<>>, FALSE, ScheduleOdd),      \* no jobConfig
      Doc(TRUE, TRUE, TRUE, NameA, FALSE, ScheduleOdd),       \* no jobConfig.schedule
      Doc(TRUE, TRUE, TRUE, NameA, TRUE, ScheduleOdd),
      Doc(TRUE, TRUE, TRUE, NameASchedule, TRUE, ScheduleDevOnly) }
    \cup { Doc(TRUE, TRUE, TRUE, nm, TRUE, sch) :
             nm \in { NameA, NameBDev, NameBEnv },
             sch \in { ScheduleDevOnly, ScheduleProdOnly } }
    \cup { Doc(TRUE, TRUE, FALSE, <<>>, TRUE, sch) :          \* no jobConfig.name
             sch \in { ScheduleDevOnly, ScheduleProdOnly } }

Digits == <<"1","2","3","4","5","6","7","8","9">>

\* the k-th document is the file <k>.json of the directory
DocFileName(k) == <<Digits[k]>> \o DotJson

\* fs.readdirSync of ./config/glue-job-configs: the documents, and a file
\* that is not a job configuration
ConfigListing(docs) ==
    [k \in 1..Len(docs) |->
        [name |-> DocFileName(k), isDir |-> FALSE, children |-> <<>>]]
    \o << [name |-> <<"a",".","j","s">>, isDir |-> FALSE, children |-> <<>>] >>

\* fs.readFileSync(filePath), line 52
readFileSync(docs, filePath) ==
    docs[CHOOSE k \in 1..Len(docs) : filePath = Append(baseDir, DocFileName(k))]

\* JSON.parse of the substituted text, lines 53-59 (syntaxOk says whether it
\* parses); the name is the text the substitution leaves
parsed(doc, env) ==
    [hasJobConfig |-> doc.hasJobConfig, hasName |-> doc.hasName,
     name |-> Substitute(doc.name, ds_account, is_account, EnvText(env),
                         transformServiceName),
     hasSchedule |-> doc.hasSchedule, schedule |-> doc.schedule]

\* `${configDataItem['jobConfig'].name}`: an absent name prints as undefined
nameText(configDataItem) ==
    IF configDataItem.hasName THEN configDataItem.name
    ELSE <<"u","n","d","e","f","i","n","e","d">>

\* a construct of the stack; doc is the index of the document it was built from
Construct(kind, id, name, jobName, schedule, k) ==
    [kind |-> kind, id |-> id, name |-> name, jobName |-> jobName,
     schedule |-> schedule, doc |-> k]

\* a scope that accepts an id twice
idNeverTaken(built, id) == FALSE

\* new X(this, id, ...): the ids of the constructs of one scope are unique,
\* the constructor throws when the id is taken. (The ids that
\* initializeStackProperties uses start with the stack name and meet none of
\* the job names explored here.)
idTaken(built, id) == \E k \in 1..Len(built) : built[k].id = id

\* line 165 left out
addNoDependency(edges, dependent, dependency) == edges

\* line 165
addDependency(edges, dependent, dependency) ==
    edges \cup { <<dependent.id, dependency.id>> }

Fail(e) ==
    /\ pc' = "failed"
    /\ err' = e

RunInit ==
    /\ pc = "start"
    /\ envName \in Envs
    /\ store \in { { ParameterPath(envName, f) : f \in BaselineFields } \ gone :
                     gone \in { {}, { ParameterPath(envName, "glue-role-arn") },
                                { ParameterPath(envName, "data-artifact-bucket-arn") } } }
    /\ files \in UNION { [1..n -> Documents] : n \in 0..MaxDocs }
    /\ refs = <<>>
    /\ fileNames = <<>>
    /\ configData = <<>>
    /\ i = 0
    /\ constructs = <<>>
    /\ deps = {}
    /\ err = ""

\* line 88, lines 221-311
initializeStackProperties ==
    /\ pc = "start"
    /\ \E outcome \in GetBucketFromArn(store, StackParameters(envName)[4]) :
         IF outcome = "ok"
         THEN /\ refs' = StackParameters(envName)
              /\ pc' = "initialized"
              /\ err' = err
         ELSE /\ refs' = SubSeq(StackParameters(envName), 1, 4)
              /\ Fail(outcome)
    /\ UNCHANGED <<envName, store, files, fileNames, configData, i, constructs, deps>>

\* line 92
LoadJobConfigsFiles ==
    /\ pc = "initialized"
    /\ fileNames' = loadJobConfigsFiles(ConfigListing(files))
    /\ pc' = "discovered"
    /\ UNCHANGED <<envName, store, files, refs, configData, i, constructs, deps, err>>

\* lines 93-99, 43-64: every file is read, substituted and parsed before the
\* first construct is made
loadJobConfigsFileContent ==
    /\ pc = "discovered"
    /\ LET docs == [k \in 1..Len(fileNames) |-> readFileSync(files, fileNames[k])]
       IN IF \E k \in 1..Len(docs) : ~docs[k].syntaxOk
          THEN /\ Fail("SyntaxError")
               /\ UNCHANGED <<configData, i>>
          ELSE /\ configData' = [k \in 1..Len(docs) |-> parsed(docs[k], envName)]
               /\ i' = 1
               /\ pc' = IF Len(docs) = 0 THEN "done" ELSE "deployment"
               /\ err' = err
    /\ UNCHANGED <<envName, store, files, refs, fileNames, constructs, deps>>

\* lines 107-121
BuildDeployment ==
    /\ pc = "deployment"
    /\ LET configDataItem == configData[i]
           id == nameText(configDataItem) \o <<"-","s","3","d","e","p","l","o","y">>
       IN IF ~configDataItem.hasJobConfig
          THEN Fail("TypeError") /\ UNCHANGED constructs
          ELSE IF idTaken(constructs, id)
          THEN Fail("DuplicateConstruct") /\ UNCHANGED constructs
          ELSE /\ constructs' = Append(constructs,
                      Construct("deployment", id, <<>>, <<>>, "", i))
               /\ pc' = "job"
               /\ err' = err
    /\ UNCHANGED <<envName, store, files, refs, fileNames, configData, i, deps>>

\* lines 122-147
BuildJob ==
    /\ pc = "job"
    /\ LET configDataItem == configData[i]
           id == nameText(configDataItem)
       IN IF idTaken(constructs, id)
          THEN Fail("DuplicateConstruct") /\ UNCHANGED constructs
          ELSE /\ constructs' = Append(constructs,
                      Construct("job", id, nameText(configDataItem), <<>>, "", i))
               /\ pc' = "schedule"
               /\ err' = err
    /\ UNCHANGED <<envName, store, files, refs, fileNames, configData, i, deps>>

\* lines 148-166, and the loop's i++ and test; the suppressions that follow
\* the loop (lines 169-216) add no construct
BuildSchedule ==
    /\ pc = "schedule"
    /\ LET configDataItem == configData[i]
           glueTransformationJob ==
               constructs[CHOOSE k \in 1..Len(constructs) :
                            constructs[k].kind = "job" /\ constructs[k].doc = i]
           id == nameText(configDataItem) \o <<"-","s","c","h","e","d","u","l","e">>
           next == /\ i' = i + 1
                   /\ pc' = IF i = Len(configData) THEN "done" ELSE "deployment"
                   /\ err' = err
       IN IF ~configDataItem.hasSchedule
          THEN Fail("TypeError") /\ UNCHANGED <<constructs, deps, i>>
          ELSE LET schedulerParamVal == configDataItem.schedule[envName]
               IN IF ~scheduleWanted(schedulerParamVal)
                  THEN next /\ UNCHANGED <<constructs, deps>>
                  ELSE IF idTaken(constructs, id)
                  THEN Fail("DuplicateConstruct") /\ UNCHANGED <<constructs, deps, i>>
                  ELSE LET glueTransformationJobSchedule ==
                               Construct("schedule", id, id,
                                         glueTransformationJob.name,
                                         schedulerParamVal.v, i)
                       IN /\ constructs' = Append(constructs,
                                                  glueTransformationJobSchedule)
                          /\ deps' = addDependency(deps,
                                                   glueTransformationJobSchedule,
                                                   glueTransformationJob)
                          /\ next
    /\ UNCHANGED <<envName, store, files, refs, fileNames, configData>>

RunIdle ==
    /\ pc = "idle" /\ envName = "" /\ store = {} /\ files = <<>> /\ refs = <<>>
    /\ fileNames = <<>> /\ configData = <<>> /\ i = 0 /\ constructs = <<>>
    /\ deps = {} /\ err = ""

\* ------------------------------------------- the CuratedBuckets construct
\* Identifiers and names of this construct are strings joined with \o, as the
\* template literals of lines 355-434 join them.

\* this.stackName (line 332)
stackName == "stack"
\* this.account (line 333), and a defined props.dataServiceAccount
account == "1"
dataServiceAccounts == { Undefined, Str("3") }

BucketNames == { "x", "xArn", "y" }

\* a guard that lets an undefined account through
accountNeverMissing(dataServiceAccount) == FALSE

\* line 346
accountMissing(dataServiceAccount) == dataServiceAccount = Undefined

\* line 357
physicalName(env, bucketName) == env \o "-" \o bucketName \o "-" \o account

\* s3.Bucket of lines 353-368: its construct id, its bucketName, its bucketArn
Bucket(id, env, bucketName) ==
    [id |-> id, bucketName |-> physicalName(env, bucketName),
     bucketArn |-> "arn:aws:s3:::" \o physicalName(env, bucketName)]

NoBucket == [id |-> "", bucketName |-> "", bucketArn |-> ""]

\* lines 381-384 and 401-404
statementResources(bucket) ==
    { "arn:aws:s3:::" \o bucket.bucketName,
      "arn:aws:s3:::" \o bucket.bucketName \o "/*" }

\* the resources Bucket.grantReadWrite and Bucket.grantPutAcl name: the bucket
\* they are called on and its objects
grantResources(bucket) == { bucket.bucketArn, bucket.bucketArn \o "/*" }

\* lines 414 and 419
glueOrchestrationRole(dataServiceAccount, env) ==
    "arn:aws:iam::" \o dataServiceAccount.v \o ":role/" \o env
        \o "-dps-iam-glue-orchestration-role"

\* line 425
baselineParameterName(env, bucketName) ==
    "/cdk/" \o env \o "/dps-data-services-baseline/" \o bucketName \o "-bucket-arn"

\* a cross-account path that leaves the environment out
crossAccountParameterNameNoEnv(env, bucketName) ==
    "/services/" \o bucketName \o "-bucket-arn"

\* line 434
crossAccountParameterName(env, bucketName) ==
    "/services/" \o env \o "/" \o bucketName \o "-bucket-arn"

\* One thing the constructor did: kind is "bucket", "appflow", "lambda",
\* "readWrite", "putAcl" or "parameter"; id is the construct id in the scope
\* of this construct ("" for a grant, which lands in the bucket's own policy);
\* on is the construct id of the bucket the call was made on or whose ARN was
\* read; for is the entry of bucketNames whose callback made it; stringValue
\* is the value of a parameter and, for a bucket, its bucketArn attribute.
Effect(kind, id, on, for, principal, resources, parameterName, stringValue) ==
    [kind |-> kind, id |-> id, on |-> on, for |-> for, principal |-> principal,
     resources |-> resources, parameterName |-> parameterName,
     stringValue |-> stringValue]

\* new X(this, id, ...) in the scope of this construct throws on a taken id
scopeIdTaken(effects, id) ==
    \E k \in 1..Len(effects) : effects[k].id # "" /\ effects[k].id = id

BucketsFail ==
    /\ bPc' = "failed"
    /\ bErr' = "Error"

BucketsInit ==
    /\ bPc = "check"
    /\ bEnv \in Envs
    /\ bAccount \in dataServiceAccounts
    /\ bNames \in UNION { [1..n -> BucketNames] : n \in 0..MaxBuckets }
    /\ bI = 0
    /\ curatedBucket = NoBucket
    /\ bEffects = <<>>
    /\ bErr = ""

\* lines 336-352: the guard, then forEach starts on the first entry, if any
CheckDataServiceAccount ==
    /\ bPc = "check"
    /\ IF accountMissing(bAccount)
       THEN BucketsFail /\ UNCHANGED bI
       ELSE IF bNames = <<>>
            THEN bPc' = "done" /\ UNCHANGED <<bI, bErr>>
            ELSE bPc' = "bucket" /\ bI' = 1 /\ UNCHANGED bErr
    /\ UNCHANGED <<bEnv, bAccount, bNames, curatedBucket, bEffects>>

\* lines 353-369
NewBucket ==
    /\ bPc = "bucket"
    /\ LET id == stackName \o "-" \o bNames[bI]
       IN IF scopeIdTaken(bEffects, id)
          THEN BucketsFail /\ UNCHANGED <<curatedBucket, bEffects>>
          ELSE /\ curatedBucket' = Bucket(id, bEnv, bNames[bI])
               /\ bEffects' = Append(bEffects,
                      Effect("bucket", id, id, bNames[bI], "", {}, "",
                             Bucket(id, bEnv, bNames[bI]).bucketArn))
               /\ bPc' = "appflow"
               /\ UNCHANGED bErr
    /\ UNCHANGED <<bEnv, bAccount, bNames, bI>>

\* lines 371-390
AddAppflowStatement ==
    /\ bPc = "appflow"
    /\ bEffects' = Append(bEffects,
           Effect("appflow", "", curatedBucket.id, bNames[bI],
                  "appflow.amazonaws.com", statementResources(curatedBucket),
                  "", ""))
    /\ bPc' = "lambda"
    /\ UNCHANGED <<bEnv, bAccount, bNames, bI, curatedBucket, bErr>>

\* lines 392-410
AddLambdaStatement ==
    /\ bPc = "lambda"
    /\ bEffects' = Append(bEffects,
           Effect("lambda", "", curatedBucket.id, bNames[bI],
                  "lambda.amazonaws.com", statementResources(curatedBucket),
                  "", ""))
    /\ bPc' = "readWrite"
    /\ UNCHANGED <<bEnv, bAccount, bNames, bI, curatedBucket, bErr>>

\* lines 412-416
GrantReadWrite ==
    /\ bPc = "readWrite"
    /\ bEffects' = Append(bEffects,
           Effect("readWrite", "", curatedBucket.id, bNames[bI],
                  glueOrchestrationRole(bAccount, bEnv),
                  grantResources(curatedBucket), "", ""))
    /\ bPc' = "putAcl"
    /\ UNCHANGED <<bEnv, bAccount, bNames, bI, curatedBucket, bErr>>

\* lines 417-421
GrantPutAcl ==
    /\ bPc = "putAcl"
    /\ bEffects' = Append(bEffects,
           Effect("putAcl", "", curatedBucket.id, bNames[bI],
                  glueOrchestrationRole(bAccount, bEnv),
                  grantResources(curatedBucket), "", ""))
    /\ bPc' = "arn"
    /\ UNCHANGED <<bEnv, bAccount, bNames, bI, curatedBucket, bErr>>

\* lines 423-427
PublishArn ==
    /\ bPc = "arn"
    /\ LET id == stackName \o "-" \o bNames[bI] \o "Arn"
       IN IF scopeIdTaken(bEffects, id)
          THEN BucketsFail /\ UNCHANGED bEffects
          ELSE /\ bEffects' = Append(bEffects,
                      Effect("parameter", id, curatedBucket.id, bNames[bI], "",
                             {}, baselineParameterName(bEnv, bNames[bI]),
                             curatedBucket.bucketArn))
               /\ bPc' = "crossArn"
               /\ UNCHANGED bErr
    /\ UNCHANGED <<bEnv, bAccount, bNames, bI, curatedBucket>>

\* lines 429-438: the second parameter ends the callback; forEach goes on to
\* the next entry or returns. (The stack suppressions of lines 440-446 add
\* metadata to the stack and make none of the effects recorded here.)
PublishCrossAccountArn ==
    /\ bPc = "crossArn"
    /\ LET id == stackName \o "-" \o bNames[bI] \o "CrossAccountArn"
       IN IF scopeIdTaken(bEffects, id)
          THEN BucketsFail /\ UNCHANGED <<bEffects, bI>>
          ELSE /\ bEffects' = Append(bEffects,
                      Effect("parameter", id, curatedBucket.id, bNames[bI], "",
                             {}, crossAccountParameterName(bEnv, bNames[bI]),
                             curatedBucket.bucketArn))
               /\ IF bI < Len(bNames)
                  THEN bPc' = "bucket" /\ bI' = bI + 1
                  ELSE bPc' = "done" /\ UNCHANGED bI
               /\ UNCHANGED bErr
    /\ UNCHANGED <<bEnv, bAccount, bNames, curatedBucket>>

BucketsIdle ==
    /\ bPc = "idle" /\ bEnv = "" /\ bAccount = Undefined /\ bNames = <<>>
    /\ bI = 0 /\ curatedBucket = NoBucket /\ bEffects = <<>> /\ bErr = ""

InitRender == RenderInit /\ DiscoverIdle /\ RunIdle /\ BucketsIdle

NextRender == RenderText /\ UNCHANGED <<runVars, discoverVars, bucketVars>>

SpecRender == InitRender /\ [][NextRender]_vars

InitDiscover == DiscoverInit /\ RenderIdle /\ RunIdle /\ BucketsIdle

NextDiscover == Discover /\ UNCHANGED <<runVars, renderVars, bucketVars>>

SpecDiscover == InitDiscover /\ [][NextDiscover]_vars

Init == RunInit /\ RenderIdle /\ DiscoverIdle /\ BucketsIdle

Next ==
    \/ initializeStackProperties /\ UNCHANGED <<renderVars, discoverVars, bucketVars>>
    \/ LoadJobConfigsFiles /\ UNCHANGED <<renderVars, discoverVars, bucketVars>>
    \/ loadJobConfigsFileContent /\ UNCHANGED <<renderVars, discoverVars, bucketVars>>
    \/ BuildDeployment /\ UNCHANGED <<renderVars, discoverVars, bucketVars>>
    \/ BuildJob /\ UNCHANGED <<renderVars, discoverVars, bucketVars>>
    \/ BuildSchedule /\ UNCHANGED <<renderVars, discoverVars, bucketVars>>

Spec == Init /\ [][Next]_vars

InitBuckets == BucketsInit /\ RunIdle /\ RenderIdle /\ DiscoverIdle

NextBuckets ==
    \/ CheckDataServiceAccount /\ UNCHANGED <<runVars, renderVars, discoverVars>>
    \/ NewBucket /\ UNCHANGED <<runVars, renderVars, discoverVars>>
    \/ AddAppflowStatement /\ UNCHANGED <<runVars, renderVars, discoverVars>>
    \/ AddLambdaStatement /\ UNCHANGED <<runVars, renderVars, discoverVars>>
    \/ GrantReadWrite /\ UNCHANGED <<runVars, renderVars, discoverVars>>
    \/ GrantPutAcl /\ UNCHANGED <<runVars, renderVars, discoverVars>>
    \/ PublishArn /\ UNCHANGED <<runVars, renderVars, discoverVars>>
    \/ PublishCrossAccountArn /\ UNCHANGED <<runVars, renderVars, discoverVars>>

SpecBuckets == InitBuckets /\ [][NextBuckets]_vars

\* ---------------------------------------------------------------- claims
Range(s) == { s[k] : k \in 1..Len(s) }
Jobs == { n \in 1..Len(constructs) : constructs[n].kind = "job" }
Schedules == { n \in 1..Len(constructs) : constructs[n].kind = "schedule" }
SchedulesOf(k) == { n \in Schedules : constructs[n].doc = k }
JobsOf(k) == { n \in Jobs : constructs[n].doc = k }
\* the documents whose loop iteration has completed
Built == { k \in 1..Len(configData) : k < i }
NonEmptyString(val) == val.t = "string" /\ val.v # ""

\* C1: a config whose schedule[envName] is "" or absent yields no schedule; a
\* non-empty string yields exactly one, carrying the value as its expression
\* and naming the job built from the same config and no other job. In a
\* completed run the schedules are as many as the documents with a non-empty
\* schedule[envName], and no job has two schedules.
C1_ScheduleSuppression ==
    /\ \A k \in Built :
         LET val == configData[k].schedule[envName]
         IN /\ (val = Str("") \/ val = Undefined) => SchedulesOf(k) = {}
            /\ NonEmptyString(val) =>
                 /\ Cardinality(SchedulesOf(k)) = 1
                 /\ \A n \in SchedulesOf(k) :
                      /\ constructs[n].schedule = val.v
                      /\ \E j \in JobsOf(k) : constructs[j].name = constructs[n].jobName
                      /\ \A j \in Jobs : constructs[j].name = constructs[n].jobName
                                           => constructs[j].doc = k
    /\ pc = "done" =>
         Cardinality(Schedules) =
           Cardinality({ k \in 1..Len(configData) :
                           NonEmptyString(configData[k].schedule[envName]) })
    /\ \A j \in Jobs :
         Cardinality({ n \in Schedules : constructs[n].jobName = constructs[j].name }) <= 1

\* a completed run in which one document has a non-empty schedule for the
\* environment, one has the empty string or no key, and one schedule was built
C1_Witness ==
    /\ pc = "done"
    /\ \E k \in Built : NonEmptyString(configData[k].schedule[envName])
    /\ \E k \in Built : configData[k].schedule[envName] = Undefined
    /\ Cardinality(Schedules) = 1

\* C2: every schedule in the stack comes after the job it triggers, and the
\* edge from the schedule to that job is recorded with it.
C2_ScheduleAfterJob ==
    \A n \in Schedules :
        \E j \in Jobs :
            /\ j < n
            /\ constructs[j].doc = constructs[n].doc
            /\ constructs[j].name = constructs[n].jobName
            /\ <<constructs[n].id, constructs[j].id>> \in deps

\* jobA with schedule.dev set and jobB with schedule.dev = "", run for dev:
\* two jobs, one schedule, for jobA and after it
C2_Witness ==
    /\ pc = "done" /\ envName = "dev"
    /\ Len(files) = 2
    /\ files[1].schedule = ScheduleDevOnly /\ files[2].schedule = ScheduleProdOnly
    /\ Cardinality(Jobs) = 2
    /\ Cardinality(Schedules) = 1
    /\ \A n \in Schedules : constructs[n].doc = 1 /\ \E j \in JobsOf(1) : j < n

\* C3: a run has no partial success: it ends with the constructs of every
\* document, or it fails with none built.
C3_NoPartialSuccess ==
    /\ pc = "failed" => constructs = <<>>
    /\ pc = "done" => \A k \in 1..Len(files) : JobsOf(k) # {}

jobNameCollision ==
    \E k, m \in 1..Len(configData) :
        /\ k < m
        /\ configData[k].hasJobConfig /\ configData[m].hasJobConfig
        /\ nameText(configData[k]) = nameText(configData[m])

ReferencedFields ==
    { "glue-role-arn", "sfn-role-arn", "data-artifact-bucket-arn",
      "glue-connection-list", "glue-kms-key-arn" }

C9_NameRequired ==
    /\ \A j \in Jobs : configData[constructs[j].doc].hasName
    /\ (pc = "done" => \A k \in 1..Len(configData) : configData[k].hasName)


Tokens == << TokDs, TokIs, TokEnv, TokSvc >>
ValuesOf(m) == << m.ds, m.is, m.env, m.svc >>

\* one scan of the raw text: where a placeholder starts, its value is copied
\* as it is and the scan goes on after the placeholder
RECURSIVE SinglePass(_, _, _)
SinglePass(raw, m, pos) ==
    IF pos > Len(raw) THEN <<>>
    ELSE IF \E t \in 1..4 : MatchAt(raw, Tokens[t], pos)
    THEN LET t == CHOOSE t \in 1..4 : MatchAt(raw, Tokens[t], pos)
         IN ValuesOf(m)[t] \o SinglePass(raw, m, pos + Len(Tokens[t]))
    ELSE <<raw[pos]>> \o SinglePass(raw, m, pos + 1)

\* C5: rendering is single-pass: inserted text is never scanned for
\* placeholders, a value holding a placeholder token appears as it is.
\* (Stated for values without "$", which replace reads as a pattern.)
C5_SinglePass ==
    ( /\ rPc = "rendered"
      /\ \A v \in 1..4 : "$" \notin Range(ValuesOf(rMap)[v]) )
    => rOut = SinglePass(rRaw, rMap, 1)

Contains(text, tok) == \E pos \in 1..Len(text) : MatchAt(text, tok, pos)

\* the four replacements applied in the order order[1], ..., order[4]
RECURSIVE InOrder(_, _, _, _)
InOrder(text, m, order, n) ==
    IF n > 4 THEN text
    ELSE InOrder(ReplaceAll(text, Tokens[order[n]], ValuesOf(m)[order[n]]),
                 m, order, n + 1)

Orders == { o \in [1..4 -> 1..4] : \A a, b \in 1..4 : o[a] = o[b] => a = b }

\* C6: when no value holds a placeholder token, the four replacements give
\* the same text in each of the 24 orders.
C6_OrderIndependent ==
    ( /\ rPc = "rendered"
      /\ \A v \in 1..4 : ValuesOf(rMap)[v] # <<>>
      /\ \A v, t \in 1..4 : ~Contains(ValuesOf(rMap)[v], Tokens[t]) )
    => \A o \in Orders : InOrder(rRaw, rMap, o, 1) = rOut

\* the entries of a tree: path, whether a directory, and the positions of the
\* entry and of its ancestors among their siblings
RECURSIVE Entries(_, _, _)
Entries(dir, at, listing) ==
    UNION { { [path |-> Append(dir, listing[k].name), isDir |-> listing[k].isDir,
               at |-> Append(at, k)] }
            \cup Entries(Append(dir, listing[k].name), Append(at, k),
                         listing[k].children)
          : k \in 1..Len(listing) }

HasJsonSuffix(name) == \E rest \in 0..Len(name) : SubSeq(name, rest + 1, Len(name)) = DotJson

\* p comes before q in a depth-first walk that takes siblings in listing order
Before(p, q) ==
    \E k \in 1..Len(p) :
        /\ k <= Len(q)
        /\ p[k] < q[k]
        /\ \A j \in 1..(k - 1) : p[j] = q[j]

\* C8: discovery returns the paths of the non-directory entries under the root
\* whose name ends with .json, each once, in depth-first order of the walk;
\* no directory and no file with another suffix is returned.
C8_Discover ==
    dPc = "discovered" =>
        LET all == Entries(baseDir, <<>>, dTree)
            wanted == { e \in all : ~e.isDir /\ HasJsonSuffix(e.path[Len(e.path)]) }
            At(path) == (CHOOSE e \in all : e.path = path).at
        IN /\ Range(dOut) = { e.path : e \in wanted }
           /\ Len(dOut) = Cardinality(wanted)
           /\ \A a, b \in 1..Len(dOut) : a < b => Before(At(dOut[a]), At(dOut[b]))

\* a matching file, then a directory whose own name ends with .json and that
\* holds a matching file, then a file with another suffix
C8_Witness ==
    /\ dPc = "discovered"
    /\ Len(dTree) = 3
    /\ ~dTree[1].isDir /\ HasJsonSuffix(dTree[1].name)
    /\ dTree[2].isDir /\ HasJsonSuffix(dTree[2].name) /\ Len(dTree[2].children) = 1
    /\ ~dTree[3].isDir /\ ~HasJsonSuffix(dTree[3].name)
    /\ Len(dOut) = 2
    /\ dOut[2] = <<baseDir[1], baseDir[2], baseDir[3], dTree[2].name, dTree[2].children[1].name>>

\* ------------------------------------------------ claims on CuratedBuckets
GrantKinds == { "appflow", "lambda", "readWrite", "putAcl" }
EffectsOf(kind, bucketName) ==
    { n \in 1..Len(bEffects) :
        bEffects[n].kind = kind /\ bEffects[n].for = bucketName }
\* the entries of bucketNames whose callback has returned
Finished == { k \in 1..Len(bNames) : k < bI \/ bPc = "done" }
PublishedPaths(env, bucketName) ==
    { "/cdk/" \o env \o "/dps-data-services-baseline/" \o bucketName \o "-bucket-arn",
      "/services/" \o env \o "/" \o bucketName \o "-bucket-arn" }

\* C11: every grant and every published parameter of a bucket name comes after
\* the creation of the bucket of that name, is made on that bucket, and names
\* only that bucket (a grant) or holds that bucket's ARN (a parameter) under
\* one of the two paths of the name; distinct buckets have distinct ARNs. Once
\* the callback of a name has returned, and so for every name of a
\* construction that returned, there are one bucket, each of the four grants
\* once, and exactly two parameters, one at each path.
C11_BucketBeforeGrantsAndArn ==
    /\ \A n \in 1..Len(bEffects) :
         bEffects[n].kind # "bucket" =>
           \E b \in 1..(n - 1) :
             /\ bEffects[b].kind = "bucket"
             /\ bEffects[b].for = bEffects[n].for
             /\ bEffects[n].on = bEffects[b].id
             /\ bEffects[n].kind \in GrantKinds =>
                  bEffects[n].resources =
                    { bEffects[b].stringValue, bEffects[b].stringValue \o "/*" }
             /\ bEffects[n].kind = "parameter" =>
                  /\ bEffects[n].stringValue = bEffects[b].stringValue
                  /\ bEffects[n].parameterName
                       \in PublishedPaths(bEnv, bEffects[n].for)
    /\ \A b1, b2 \in 1..Len(bEffects) :
         /\ bEffects[b1].kind = "bucket"
         /\ bEffects[b2].kind = "bucket"
         /\ b1 # b2
         => bEffects[b1].stringValue # bEffects[b2].stringValue
    /\ \A bucketName \in BucketNames :
         /\ Cardinality(EffectsOf("parameter", bucketName)) <= 2
         /\ \A p, q \in EffectsOf("parameter", bucketName) :
              p # q => bEffects[p].parameterName # bEffects[q].parameterName
    /\ \A k \in Finished :
         /\ Cardinality(EffectsOf("bucket", bNames[k])) = 1
         /\ \A g \in GrantKinds : Cardinality(EffectsOf(g, bNames[k])) = 1
         /\ Cardinality(EffectsOf("parameter", bNames[k])) = 2
         /\ { bEffects[p].parameterName : p \in EffectsOf("parameter", bNames[k]) }
              = PublishedPaths(bEnv, bNames[k])
    /\ bPc = "done" => Len(bEffects) = 7 * Len(bNames)

\* a construction over two names that returned
C11_Witness ==
    /\ bPc = "done"
    /\ Len(bNames) >= 2
    /\ Cardinality({ n \in 1..Len(bEffects) : bEffects[n].kind = "parameter" })
         = 2 * Len(bNames)

\* C12: a construction whose dataServiceAccount is undefined makes no bucket,
\* no grant and no parameter, whatever bucketNames holds, and its first step
\* ends it with an error, also when bucketNames is empty.
C12_UndefinedAccountFails ==
    bAccount = Undefined /\ bPc # "idle" =>
      /\ bEffects = <<>>
      /\ curatedBucket = NoBucket
      /\ bPc \in { "check", "failed" }
      /\ bPc = "failed" => bErr = "Error"
      /\ bPc = "check" => bErr = ""

\* the guard has thrown on a non-empty list of names
C12_Witness ==
    /\ bAccount = Undefined
    /\ bNames # <<>>
    /\ bPc = "failed"
    /\ bErr = "Error"
====
